---- MODULE Spec2Model ----
(***************************************************************************)
(* State machine of the business-analysis front end (App.js): the form     *)
(* draft, the submission handler handleAnalyze, the history refresh        *)
(* fetchAnalysisHistory, the history selection loadAnalysis, and the       *)
(* requests they have in flight against the remote service.                *)
(*                                                                         *)
(* Text is a sequence of one-character strings, so that trim, filter and   *)
(* join are computed as the code computes them.  JavaScript null is the    *)
(* record JsNull; `x || null` of a text x is JsOrNull(x).                  *)
(***************************************************************************)
EXTENDS Integers, Sequences, FiniteSets, TLC

VARIABLES
    formData,         \* useState draft of the form (App.js 73-85)
    loading,          \* useState(false)
    analysis,         \* useState(null): the displayed AnalysisResult
    error,            \* useState(''): the error banner text
    analysisHistory,  \* useState([]): the cached history list
    activeTab,        \* useState('analyzer')
    net,              \* requests in flight: id -> [kind, parent, body]
    nextId,           \* id the next issued request gets
    posted,           \* number of POST /api/analyze-business issued so far
    fetched,          \* number of GET /api/analyses issued so far
    shownBy           \* id of the request whose response is displayed (0: none yet)

vars == <<formData, loading, analysis, error, analysisHistory, activeTab,
          net, nextId, posted, fetched, shownBy>>

----------------------------------------------------------------------------
(* Bounds *)

\* Submissions and history selections one behaviour may start (the history
\* refreshes they cause come on top).
MaxStarted == 2

\* Longest text of a form field in the drafts of DraftSpec.
MaxTextLen == 2

----------------------------------------------------------------------------
(* Text *)

Chars == {" ", "a"}

IsSpace(c) == c = " "

RECURSIVE TrimStart(_)
TrimStart(s) ==
    IF s # <<>> /\ IsSpace(Head(s)) THEN TrimStart(Tail(s)) ELSE s

RECURSIVE TrimEnd(_)
TrimEnd(s) ==
    IF s # <<>> /\ IsSpace(s[Len(s)]) THEN TrimEnd(SubSeq(s, 1, Len(s) - 1)) ELSE s

\* a trim that is forgotten
TrimNothing(s) == s

\* String.prototype.trim
Trim(s) == TrimEnd(TrimStart(s))

\* JavaScript truthiness of a text: the empty text is falsy
Truthy(s) == s # <<>>

JsNull == [isNull |-> TRUE, text |-> <<>>]

JsText(s) == [isNull |-> FALSE, text |-> s]

\* a body that sends a blank optional field as the empty string
JsOrEmptyText(s) == JsText(s)

\* s || null
JsOrNull(s) == IF Truthy(s) THEN JsText(s) ELSE JsNull

\* Array.prototype.join(', ')
RECURSIVE Join(_)
Join(parts) ==
    IF parts = <<>> THEN <<>>
    ELSE IF Len(parts) = 1 THEN parts[1]
    ELSE parts[1] \o <<",", " ">> \o Join(Tail(parts))

\* the filter without the trim: a whitespace-only part is kept
LocationPartsUntrimmed(fd) ==
    SelectSeq(<<fd.area, fd.city, fd.state, fd.country>>, Truthy)

\* [area, city, state, country].filter(part => part.trim())
LocationParts(fd) ==
    LET KeepPart(part) == Truthy(Trim(part))
    IN  SelectSeq(<<fd.area, fd.city, fd.state, fd.country>>, KeepPart)

\* fullLocation = locationParts.join(', ')
FullLocation(fd) == Join(LocationParts(fd))

----------------------------------------------------------------------------
(* Form draft and request body *)

\* useState({...}) initial draft
InitialFormData ==
    [businessName |-> <<>>, businessCount |-> 1,
     businessCategory |-> <<>>, businessSubcategory |-> <<>>,
     country |-> <<>>, state |-> <<>>, city |-> <<>>, area |-> <<>>,
     techStackMethod |-> "both", websiteAnalysisMethod |-> "both",
     generateOutreach |-> FALSE]

\* onChange of the number input: parseInt(e.target.value) || 1
CountFromInput(n) == IF n = 0 THEN 1 ELSE n

\* the body handed to axios.post
AnalyzeBody(fd) ==
    [business_name |-> Trim(fd.businessName),
     business_count |-> fd.businessCount,
     business_category |-> JsOrNull(Trim(fd.businessCategory)),
     business_subcategory |-> JsOrNull(Trim(fd.businessSubcategory)),
     location |-> JsOrNull(FullLocation(fd)),
     analysis_options |->
        [tech_stack_method |-> fd.techStackMethod,
         website_analysis_method |-> fd.websiteAnalysisMethod,
         generate_outreach |-> fd.generateOutreach]]

\* !formData.businessName.trim()
NameMissing(fd) == ~Truthy(Trim(fd.businessName))

\* the range check with && for ||
CountBelowAndAbove(fd) == fd.businessCount < 1 /\ fd.businessCount > 10

\* formData.businessCount < 1 || formData.businessCount > 10
CountOutOfRange(fd) == fd.businessCount < 1 \/ fd.businessCount > 10

NameError == "Please enter a business name"

CountError == "Number of businesses must be between 1 and 10"

UnsuccessfulError == "Analysis failed. Please try again."

LoadError == "Failed to load analysis"

\* a catch block that always reports the transport failure's message
AnalyzeErrorTextFromTransport(resp) == "Analysis failed: " \o resp.message

\* `Analysis failed: ${error.response?.data?.detail || error.message}`
AnalyzeErrorText(resp) ==
    "Analysis failed: " \o (IF resp.detail # "" THEN resp.detail ELSE resp.message)

----------------------------------------------------------------------------
(* The remote service, seen from the client: what each request may be      *)
(* answered with.  ok is a 2xx answer; otherwise axios rejects.            *)

AnalysisIds == {"a1", "a2"}

\* what the outreach_message section of a result may be
OutreachForms == {"absent", "present"}

NoAnalysis == [isNull |-> TRUE]

\* an AnalysisResult: its identifier, the generate_outreach flag of the
\* submission that produced it, and its outreach_message section
AnalysisResult(id, flag, om) ==
    [isNull |-> FALSE, analysis_id |-> id, generate_outreach |-> flag,
     outreach_message |-> om]

Answer(success, data) ==
    [ok |-> TRUE, success |-> success, data |-> data,
     code |-> 200, detail |-> "", message |-> ""]

Rejection(code, detail, message, nodata) ==
    [ok |-> FALSE, success |-> FALSE, data |-> nodata,
     code |-> code, detail |-> detail, message |-> message]

\* POST /api/analyze-business
AnalyzeResponses(body) ==
    {Answer(TRUE, AnalysisResult(id, body.analysis_options.generate_outreach, om)) :
        id \in AnalysisIds, om \in OutreachForms}
    \cup {Answer(FALSE, NoAnalysis)}
    \cup {Rejection(0, "", "Network Error", NoAnalysis),
          Rejection(500, "Internal Server Error", "Request failed with status code 500", NoAnalysis),
          Rejection(422, "Unprocessable Entity", "Request failed with status code 422", NoAnalysis)}

\* GET /api/analyses: the service's list, newest first
HistoryLists == {<<>>, <<"a1">>, <<"a2", "a1">>}

HistoryResponses ==
    {Answer(TRUE, h) : h \in HistoryLists}
    \cup {Answer(FALSE, <<>>)}
    \cup {Rejection(500, "", "Request failed with status code 500", <<>>)}

\* GET /api/analysis/{analysisId}
LoadResponses(id) ==
    {Answer(TRUE, AnalysisResult(id, flag, om)) :
        flag \in BOOLEAN, om \in OutreachForms}
    \cup {Answer(FALSE, NoAnalysis)}
    \cup {Rejection(404, "Analysis not found", "Request failed with status code 404", NoAnalysis),
          Rejection(500, "", "Request failed with status code 500", NoAnalysis)}

----------------------------------------------------------------------------
(* Requests in flight *)

\* a request and what the call that awaits it holds: for a submission,
\* `before` is the result that was displayed when handleAnalyze was called
Request(kind, parent, body, before) ==
    [kind |-> kind, parent |-> parent, body |-> body, before |-> before]

InFlight(kind) == {id \in DOMAIN net : net[id].kind = kind}

Issue(n, id, req) == n @@ (id :> req)

Settle(n, id) == [i \in (DOMAIN n) \ {id} |-> n[i]]

\* submissions and history selections started so far
Started == (nextId - 1) - fetched

----------------------------------------------------------------------------
(* Initial state: the component is mounted and its effect has run *)

\* useEffect(() => { fetchAnalysisHistory(); }, [])
Mounted(fd) ==
    /\ formData = fd
    /\ loading = FALSE
    /\ analysis = NoAnalysis
    /\ error = ""
    /\ analysisHistory = <<>>
    /\ activeTab = "analyzer"
    /\ net = (1 :> Request("history", "mount", <<>>, NoAnalysis))
    /\ nextId = 2
    /\ posted = 0
    /\ fetched = 1
    /\ shownBy = 0

Init == Mounted(InitialFormData)

----------------------------------------------------------------------------
(* User events *)

\* what the user types in the orchestration specification
NameInputs == {<<" ">>, <<"a">>}

CountInputs == {0, 1, 11}

\* an updater under which a new city clears the state field
UpdatedFormDataClearingState(prev, field, value) ==
    IF field = "city"
    THEN [prev EXCEPT !.city = value, !.state = <<>>]
    ELSE [prev EXCEPT ![field] = value]

\* prev => ({...prev, [field]: value})
UpdatedFormData(prev, field, value) == [prev EXCEPT ![field] = value]

\* an edit that also rewrites the body of the submission in flight
HandleInputChangeRewritingRequest(field, value) ==
    /\ activeTab = "analyzer"
    /\ formData' = [formData EXCEPT ![field] = value]
    /\ net' = [id \in DOMAIN net |->
                 IF net[id].kind = "analyze"
                 THEN [net[id] EXCEPT !.body = AnalyzeBody(formData')]
                 ELSE net[id]]
    /\ UNCHANGED <<loading, analysis, error, analysisHistory, activeTab,
                   nextId, posted, fetched, shownBy>>

\* handleInputChange: setFormData(prev => ({...prev, [field]: value}))
HandleInputChange(field, value) ==
    /\ activeTab = "analyzer"
    /\ formData' = UpdatedFormData(formData, field, value)
    /\ UNCHANGED <<loading, analysis, error, analysisHistory, activeTab,
                   net, nextId, posted, fetched, shownBy>>

EditName == \E v \in NameInputs : HandleInputChange("businessName", v)

EditCount == \E n \in CountInputs : HandleInputChange("businessCount", CountFromInput(n))

EditOutreach == HandleInputChange("generateOutreach", ~formData.generateOutreach)

\* a history tab that fetches the list whenever it is opened
SetActiveTabFetching(tab) ==
    /\ activeTab' = tab
    /\ IF tab = "history"
       THEN /\ net' = Issue(net, nextId, Request("history", "tab", <<>>, NoAnalysis))
            /\ nextId' = nextId + 1
            /\ fetched' = fetched + 1
       ELSE UNCHANGED <<net, nextId, fetched>>
    /\ UNCHANGED <<formData, loading, analysis, error, analysisHistory,
                   posted, shownBy>>

\* TabButton onClick={setActiveTab}
SetActiveTab(tab) ==
    /\ activeTab' = tab
    /\ UNCHANGED <<formData, loading, analysis, error, analysisHistory,
                   net, nextId, posted, fetched, shownBy>>

\* a submit button that is never disabled
SubmitNeverDisabled == FALSE

\* <button type="submit" disabled={loading}>
SubmitDisabled == loading

\* handleAnalyze, up to its first await
HandleAnalyze ==
    /\ activeTab = "analyzer"
    /\ ~SubmitDisabled
    /\ \/ /\ NameMissing(formData)
          /\ error' = NameError
          /\ UNCHANGED <<formData, loading, analysis, analysisHistory, activeTab,
                         net, nextId, posted, fetched, shownBy>>
       \/ /\ ~NameMissing(formData)
          /\ CountOutOfRange(formData)
          /\ error' = CountError
          /\ UNCHANGED <<formData, loading, analysis, analysisHistory, activeTab,
                         net, nextId, posted, fetched, shownBy>>
       \/ /\ ~NameMissing(formData)
          /\ ~CountOutOfRange(formData)
          /\ Started < MaxStarted
          /\ loading' = TRUE
          /\ error' = ""
          /\ analysis' = NoAnalysis
          /\ net' = Issue(net, nextId,
                          Request("analyze", "submit", AnalyzeBody(formData), analysis))
          /\ nextId' = nextId + 1
          /\ posted' = posted + 1
          /\ UNCHANGED <<formData, analysisHistory, activeTab, fetched, shownBy>>

\* a history selection that shows the spinner while it loads
LoadAnalysisSetsLoading(analysisId) ==
    /\ activeTab = "history"
    /\ \E i \in 1..Len(analysisHistory) : analysisHistory[i] = analysisId
    /\ Started < MaxStarted
    /\ loading' = TRUE
    /\ net' = Issue(net, nextId, Request("load", "click", analysisId, NoAnalysis))
    /\ nextId' = nextId + 1
    /\ UNCHANGED <<formData, analysis, error, analysisHistory, activeTab,
                   posted, fetched, shownBy>>

\* loadAnalysis, up to its await: a click on an entry of the history tab
LoadAnalysis(analysisId) ==
    /\ activeTab = "history"
    /\ \E i \in 1..Len(analysisHistory) : analysisHistory[i] = analysisId
    /\ Started < MaxStarted
    /\ net' = Issue(net, nextId, Request("load", "click", analysisId, NoAnalysis))
    /\ nextId' = nextId + 1
    /\ UNCHANGED <<formData, loading, analysis, error, analysisHistory, activeTab,
                   posted, fetched, shownBy>>

----------------------------------------------------------------------------
(* Continuations: a request settles and the code after its await runs *)

\* a finally block that leaves loading set
LoadingLeftSet == TRUE

\* finally { setLoading(false) }
LoadingAfterFinally == FALSE

\* a success branch that stores the result and forgets the history refresh
AnalyzeSucceededNoRefresh(id, resp) ==
    /\ resp.ok /\ resp.success
    /\ analysis' = resp.data
    /\ shownBy' = id
    /\ loading' = LoadingAfterFinally
    /\ net' = Settle(net, id)
    /\ UNCHANGED <<formData, error, analysisHistory, activeTab, nextId, posted, fetched>>

\* a success branch that starts the refresh without awaiting it
AnalyzeSucceededEndsLoading(id, resp) ==
    /\ resp.ok /\ resp.success
    /\ analysis' = resp.data
    /\ shownBy' = id
    /\ loading' = LoadingAfterFinally
    /\ net' = Issue(Settle(net, id), nextId, Request("history", "submit", <<>>, NoAnalysis))
    /\ nextId' = nextId + 1
    /\ fetched' = fetched + 1
    /\ UNCHANGED <<formData, error, analysisHistory, activeTab, posted>>

\* if (response.data.success): setAnalysis, then await fetchAnalysisHistory()
\* issues the GET; loading stays set until that settles
AnalyzeSucceeded(id, resp) ==
    /\ resp.ok /\ resp.success
    /\ analysis' = resp.data
    /\ shownBy' = id
    /\ net' = Issue(Settle(net, id), nextId, Request("history", "submit", <<>>, NoAnalysis))
    /\ nextId' = nextId + 1
    /\ fetched' = fetched + 1
    /\ UNCHANGED <<formData, loading, error, analysisHistory, activeTab, posted>>

\* an else branch that stores no message
AnalyzeUnsuccessfulSilent(id, resp) ==
    /\ resp.ok /\ ~resp.success
    /\ loading' = LoadingAfterFinally
    /\ net' = Settle(net, id)
    /\ UNCHANGED <<formData, analysis, error, analysisHistory, activeTab,
                   nextId, posted, fetched, shownBy>>

\* else: setError('Analysis failed. Please try again.'), then finally
AnalyzeUnsuccessful(id, resp) ==
    /\ resp.ok /\ ~resp.success
    /\ error' = UnsuccessfulError
    /\ loading' = LoadingAfterFinally
    /\ net' = Settle(net, id)
    /\ UNCHANGED <<formData, analysis, analysisHistory, activeTab,
                   nextId, posted, fetched, shownBy>>

\* a catch block that also empties the cached history
AnalyzeRejectedDropsHistory(id, resp) ==
    /\ ~resp.ok
    /\ error' = AnalyzeErrorText(resp)
    /\ loading' = LoadingAfterFinally
    /\ analysisHistory' = <<>>
    /\ net' = Settle(net, id)
    /\ UNCHANGED <<formData, analysis, activeTab, nextId, posted, fetched, shownBy>>

\* a catch block that rethrows a schema validation failure
AnalyzeRejectedUnlessValidation(id, resp) ==
    /\ ~resp.ok
    /\ resp.code # 422
    /\ error' = AnalyzeErrorText(resp)
    /\ loading' = LoadingAfterFinally
    /\ net' = Settle(net, id)
    /\ UNCHANGED <<formData, analysis, analysisHistory, activeTab,
                   nextId, posted, fetched, shownBy>>

\* catch: setError(`Analysis failed: ...`), then finally
AnalyzeRejected(id, resp) ==
    /\ ~resp.ok
    /\ error' = AnalyzeErrorText(resp)
    /\ loading' = LoadingAfterFinally
    /\ net' = Settle(net, id)
    /\ UNCHANGED <<formData, analysis, analysisHistory, activeTab,
                   nextId, posted, fetched, shownBy>>

\* handleAnalyze after `await axios.post(...)`
AnalyzeSettled(id, resp) ==
    /\ id \in InFlight("analyze")
    /\ resp \in AnalyzeResponses(net[id].body)
    /\ \/ AnalyzeSucceeded(id, resp)
       \/ AnalyzeUnsuccessful(id, resp)
       \/ AnalyzeRejected(id, resp)

\* a refresh whose failure is surfaced in the error banner
HistorySettledSurfacesFailure(id, resp) ==
    /\ id \in InFlight("history")
    /\ resp \in HistoryResponses
    /\ analysisHistory' = IF resp.ok /\ resp.success THEN resp.data ELSE analysisHistory
    /\ error' = IF resp.ok THEN error ELSE "Failed to fetch analysis history"
    /\ loading' = IF net[id].parent = "submit" THEN LoadingAfterFinally ELSE loading
    /\ net' = Settle(net, id)
    /\ UNCHANGED <<formData, analysis, activeTab, nextId, posted, fetched, shownBy>>

\* a refresh that keeps the entries it had cached after the service's list
HistorySettledMerges(id, resp) ==
    /\ id \in InFlight("history")
    /\ resp \in HistoryResponses
    /\ analysisHistory' = IF resp.ok /\ resp.success
                          THEN resp.data \o SelectSeq(analysisHistory,
                                   LAMBDA e : \A i \in 1..Len(resp.data) : resp.data[i] # e)
                          ELSE analysisHistory
    /\ loading' = IF net[id].parent = "submit" THEN LoadingAfterFinally ELSE loading
    /\ net' = Settle(net, id)
    /\ UNCHANGED <<formData, analysis, error, activeTab, nextId, posted, fetched, shownBy>>

\* fetchAnalysisHistory after `await axios.get(...)`; when handleAnalyze
\* awaited it, handleAnalyze's finally block runs next
HistorySettled(id, resp) ==
    /\ id \in InFlight("history")
    /\ resp \in HistoryResponses
    /\ analysisHistory' = IF resp.ok /\ resp.success THEN resp.data ELSE analysisHistory
    /\ loading' = IF net[id].parent = "submit" THEN LoadingAfterFinally ELSE loading
    /\ net' = Settle(net, id)
    /\ UNCHANGED <<formData, analysis, error, activeTab, nextId, posted, fetched, shownBy>>

\* a loadAnalysis that refreshes the history list after storing the result
LoadSettledWithRefresh(id, resp) ==
    /\ id \in InFlight("load")
    /\ resp \in LoadResponses(net[id].body)
    /\ resp.ok /\ resp.success
    /\ analysis' = resp.data
    /\ activeTab' = "analyzer"
    /\ shownBy' = id
    /\ net' = Issue(Settle(net, id), nextId,
                    Request("history", "click", <<>>, NoAnalysis))
    /\ nextId' = nextId + 1
    /\ fetched' = fetched + 1
    /\ UNCHANGED <<formData, loading, error, analysisHistory, posted>>

\* a loadAnalysis whose failure clears the displayed result
LoadSettledClearsResult(id, resp) ==
    /\ id \in InFlight("load")
    /\ resp \in LoadResponses(net[id].body)
    /\ \/ /\ resp.ok /\ resp.success
          /\ analysis' = resp.data
          /\ activeTab' = "analyzer"
          /\ shownBy' = id
          /\ UNCHANGED error
       \/ /\ resp.ok /\ ~resp.success
          /\ UNCHANGED <<analysis, activeTab, error, shownBy>>
       \/ /\ ~resp.ok
          /\ error' = LoadError
          /\ analysis' = NoAnalysis
          /\ UNCHANGED <<activeTab, shownBy>>
    /\ net' = Settle(net, id)
    /\ UNCHANGED <<formData, loading, analysisHistory, nextId, posted, fetched>>

\* a loadAnalysis that closes the result when it is loaded a second time
LoadSettledToggles(id, resp) ==
    /\ id \in InFlight("load")
    /\ resp \in LoadResponses(net[id].body)
    /\ resp.ok /\ resp.success
    /\ analysis' = IF analysis = resp.data THEN NoAnalysis ELSE resp.data
    /\ activeTab' = "analyzer"
    /\ shownBy' = id
    /\ net' = Settle(net, id)
    /\ UNCHANGED <<formData, loading, error, analysisHistory, nextId, posted, fetched>>

\* a loadAnalysis that reports an answer whose success flag is false
LoadSettledReportsUnsuccessful(id, resp) ==
    /\ id \in InFlight("load")
    /\ resp \in LoadResponses(net[id].body)
    /\ \/ /\ resp.ok /\ resp.success
          /\ analysis' = resp.data
          /\ activeTab' = "analyzer"
          /\ shownBy' = id
          /\ UNCHANGED error
       \/ /\ ~(resp.ok /\ resp.success)
          /\ error' = LoadError
          /\ UNCHANGED <<analysis, activeTab, shownBy>>
    /\ net' = Settle(net, id)
    /\ UNCHANGED <<formData, loading, analysisHistory, nextId, posted, fetched>>

\* a loadAnalysis that clears the error message when it succeeds
LoadSettledClearsError(id, resp) ==
    /\ id \in InFlight("load")
    /\ resp \in LoadResponses(net[id].body)
    /\ \/ /\ resp.ok /\ resp.success
          /\ analysis' = resp.data
          /\ activeTab' = "analyzer"
          /\ shownBy' = id
          /\ error' = ""
       \/ /\ resp.ok /\ ~resp.success
          /\ UNCHANGED <<analysis, activeTab, error, shownBy>>
       \/ /\ ~resp.ok
          /\ error' = LoadError
          /\ UNCHANGED <<analysis, activeTab, shownBy>>
    /\ net' = Settle(net, id)
    /\ UNCHANGED <<formData, loading, analysisHistory, nextId, posted, fetched>>

\* loadAnalysis after `await axios.get(...)`
LoadSettled(id, resp) ==
    /\ id \in InFlight("load")
    /\ resp \in LoadResponses(net[id].body)
    /\ \/ /\ resp.ok /\ resp.success
          /\ analysis' = resp.data
          /\ activeTab' = "analyzer"
          /\ shownBy' = id
          /\ UNCHANGED error
       \/ /\ resp.ok /\ ~resp.success
          /\ UNCHANGED <<analysis, activeTab, error, shownBy>>
       \/ /\ ~resp.ok
          /\ error' = LoadError
          /\ UNCHANGED <<analysis, activeTab, shownBy>>
    /\ net' = Settle(net, id)
    /\ UNCHANGED <<formData, loading, analysisHistory, nextId, posted, fetched>>

----------------------------------------------------------------------------
(* Rendering *)

\* {activeTab === 'analyzer' && ... analysis && ... formData.generateOutreach &&
\*   analysis.outreach_message && !analysis.outreach_message.error && (...)}
OutreachRendered ==
    /\ activeTab = "analyzer"
    /\ ~analysis.isNull
    /\ formData.generateOutreach
    /\ analysis.outreach_message = "present"

----------------------------------------------------------------------------
(* Values of a result, as JSON.parse hands them to the component.  Numbers *)
(* are held in thousandths: 0.73 is 730, 72.5 is 72500, 150 is 150000.     *)

Undefined == [kind |-> "undefined", num |-> 0, flag |-> FALSE, items |-> <<>>]

Null == [kind |-> "null", num |-> 0, flag |-> FALSE, items |-> <<>>]

Number(t) == [kind |-> "number", num |-> t, flag |-> FALSE, items |-> <<>>]

Boolean(b) == [kind |-> "boolean", num |-> 0, flag |-> b, items |-> <<>>]

Array(items) == [kind |-> "array", num |-> 0, flag |-> FALSE, items |-> items]

\* truthiness of a value: v && ..., v || ...
TruthyValue(v) ==
    CASE v.kind = "number" -> v.num # 0
      [] v.kind = "boolean" -> v.flag
      [] v.kind = "array" -> TRUE
      [] OTHER -> FALSE

\* score || 0
OrZero(score) == IF TruthyValue(score) THEN score.num ELSE 0

\* Math.round: the nearest integer, halves upwards
MathRound(t) == (t + 500) \div 1000

\* Math.min(x, 100)
MathMin(x, limit) == IF x < limit THEN x ELSE limit

\* a call site that hands the probability over as it is
TimesOne(v) == v

\* score={... * 100}
Times100(v) == Number(v.num * 100)

\* an entry of Object.entries(object)
Entry(key, value) == [key |-> key, value |-> value]

\* object[key], undefined when the object has no such key
RECURSIVE Get(_, _)
Get(entries, key) ==
    IF entries = <<>> THEN Undefined
    ELSE IF Head(entries).key = key THEN Head(entries).value
    ELSE Get(Tail(entries), key)

----------------------------------------------------------------------------
(* Rendering of a displayed result *)

\* ScoreBar: the number before "/100" and the width of the bar in
\* thousandths of a percent
ScoreBar(score, label) ==
    [label |-> label, score |-> score,
     number |-> MathRound(OrZero(score)),
     width |-> MathMin(OrZero(score), 100 * 1000)]

\* {condition && <ScoreBar ... />}
When(condition, bar) == IF condition THEN <<bar>> ELSE <<>>

\* what a section puts on the page
Section(shown, errorText, bars, entries) ==
    [shown |-> shown, errorText |-> errorText, bars |-> bars, entries |-> entries]

Nothing == Section("nothing", FALSE, <<>>, <<>>)

\* Contact Information: processed_data or the yellow placeholder, with the
\* error of processed_data under it
BusinessInfoSection(a) ==
    LET info == a.business_info
        data == info.processed_data
    IN  IF info.form = "present" /\ data.form = "present"
        THEN Section("content", FALSE,
                     When(TruthyValue(data.confidence_score),
                          ScoreBar(Times100(data.confidence_score),
                                   "Data Accuracy Confidence")),
                     <<>>)
        ELSE Section("placeholder", info.form = "present" /\ data.form = "error",
                     <<>>, <<>>)

\* a category list that shows every category, empty ones too
RECURSIVE TechStackEntriesUnfiltered(_)
TechStackEntriesUnfiltered(entries) ==
    IF entries = <<>> THEN <<>>
    ELSE <<[key |-> Head(entries).key, items |-> Head(entries).value.items]>>
         \o TechStackEntriesUnfiltered(Tail(entries))

\* Object.entries(analysis.tech_stack).map(...): a category is shown when
\* Array.isArray(technologies) && technologies.length > 0, else null
RECURSIVE TechStackEntries(_)
TechStackEntries(entries) ==
    IF entries = <<>> THEN <<>>
    ELSE LET technologies == Head(entries).value
         IN  (IF technologies.kind = "array" /\ Len(technologies.items) > 0
              THEN <<[key |-> Head(entries).key, items |-> technologies.items]>>
              ELSE <<>>)
             \o TechStackEntries(Tail(entries))

\* a guard that forgets the error marker
TechStackSectionIgnoringError(a) ==
    LET stack == a.tech_stack
    IN  IF stack.form # "absent"
        THEN Section("content", FALSE, <<>>, TechStackEntries(stack.entries))
        ELSE Nothing

\* {analysis.tech_stack && !analysis.tech_stack.error && (...)}
TechStackSection(a) ==
    LET stack == a.tech_stack
    IN  IF stack.form = "present"
        THEN Section("content", FALSE,
                     When(TruthyValue(Get(stack.entries, "confidence_score")),
                          ScoreBar(Times100(Get(stack.entries, "confidence_score")),
                                   "Technology Detection Confidence")),
                     TechStackEntries(stack.entries))
        ELSE Nothing

\* the earlier version of the list: a tool is shown when
\* typeof detected === 'boolean' && detected
RECURSIVE TrackingEntriesEarlier(_)
TrackingEntriesEarlier(entries) ==
    IF entries = <<>> THEN <<>>
    ELSE LET detected == Head(entries).value
         IN  (IF detected.kind = "boolean" /\ detected.flag
              THEN <<[key |-> Head(entries).key, badge |-> "Active"]>>
              ELSE <<>>)
             \o TrackingEntriesEarlier(Tail(entries))

\* Object.entries(conversion_tracking).map(...): a tool is shown when
\* typeof detected === 'boolean', as Active or as Not Found
RECURSIVE TrackingEntries(_)
TrackingEntries(entries) ==
    IF entries = <<>> THEN <<>>
    ELSE LET detected == Head(entries).value
         IN  (IF detected.kind = "boolean"
              THEN <<[key |-> Head(entries).key,
                      badge |-> IF detected.flag THEN "Active" ELSE "Not Found"]>>
              ELSE <<>>)
             \o TrackingEntries(Tail(entries))

\* {analysis.website_analysis && !analysis.website_analysis.error && (...)}
WebsiteSection(a) ==
    LET site == a.website_analysis
        tracking == site.conversion_tracking
        trackingScore == IF tracking.present
                         THEN Get(tracking.entries, "conversion_tracking_score")
                         ELSE Undefined
        emailScore == IF site.email_marketing.present
                      THEN site.email_marketing.email_automation_score
                      ELSE Undefined
    IN  IF site.form = "present"
        THEN Section("content", FALSE,
                     When(site.seo_score.kind # "undefined",
                          ScoreBar(site.seo_score, "SEO Score"))
                     \o When(site.design_quality_score.kind # "undefined",
                             ScoreBar(site.design_quality_score, "Design Quality"))
                     \o When(trackingScore.kind # "undefined",
                             ScoreBar(trackingScore, "Conversion Tracking"))
                     \o When(emailScore.kind # "undefined",
                             ScoreBar(emailScore, "Email Marketing")),
                     IF tracking.present THEN TrackingEntries(tracking.entries)
                                         ELSE <<>>)
        ELSE Nothing

\* {analysis.business_intelligence && !analysis.business_intelligence.error && (...)}
IntelligenceSection(a) ==
    LET intel == a.business_intelligence
    IN  IF intel.form = "present"
        THEN Section("content", FALSE,
                     When(TruthyValue(intel.digital_readiness_score),
                          ScoreBar(Times100(intel.digital_readiness_score),
                                   "Digital Readiness"))
                     \o When(TruthyValue(intel.website_conversion_potential),
                             ScoreBar(Times100(intel.website_conversion_potential),
                                      "Conversion Potential"))
                     \o When(TruthyValue(intel.overall_score),
                             ScoreBar(Times100(intel.overall_score),
                                      "Investment Score"))
                     \o When(TruthyValue(intel.online_reputation_score),
                             ScoreBar(Times100(intel.online_reputation_score),
                                      "Reputation Score")),
                     <<>>)
        ELSE Nothing

\* {formData.generateOutreach && analysis.outreach_message &&
\*   !analysis.outreach_message.error && (...)}
OutreachSection(a, fd) ==
    IF fd.generateOutreach /\ a.outreach_message = "present"
    THEN Section("content", FALSE, <<>>, <<>>)
    ELSE Nothing

SectionNames ==
    {"business_info", "tech_stack", "website_analysis",
     "business_intelligence", "outreach_message"}

\* {analysis && (<div className="space-y-8"> ... </div>)}: the five cards
ResultView(a, fd) ==
    [name \in SectionNames |->
        CASE name = "business_info" -> BusinessInfoSection(a)
          [] name = "tech_stack" -> TechStackSection(a)
          [] name = "website_analysis" -> WebsiteSection(a)
          [] name = "business_intelligence" -> IntelligenceSection(a)
          [] name = "outreach_message" -> OutreachSection(a, fd)]

\* the result card is on the page
ResultVisible == activeTab = "analyzer" /\ ~analysis.isNull

----------------------------------------------------------------------------
(* Specifications *)

AnalyzeSettles ==
    \E id \in InFlight("analyze") :
        \E resp \in AnalyzeResponses(net[id].body) : AnalyzeSettled(id, resp)

HistorySettles ==
    \E id \in InFlight("history") :
        \E resp \in HistoryResponses : HistorySettled(id, resp)

LoadSettles ==
    \E id \in InFlight("load") :
        \E resp \in LoadResponses(net[id].body) : LoadSettled(id, resp)

SwitchTab == \E tab \in {"analyzer", "history"} : SetActiveTab(tab)

SelectHistory == \E aid \in AnalysisIds : LoadAnalysis(aid)

Next ==
    \/ EditName
    \/ EditCount
    \/ EditOutreach
    \/ SwitchTab
    \/ HandleAnalyze
    \/ SelectHistory
    \/ AnalyzeSettles
    \/ HistorySettles
    \/ LoadSettles

\* the orchestration: user events and settling requests interleave freely
Spec == Init /\ [][Next]_vars

\* every POST that was issued is eventually answered or fails (the premise
\* "the request completes"); nothing is assumed of the other requests or
\* of the user
PostCompletesSpec == Spec /\ WF_vars(AnalyzeSettles)

\* texts of at most n characters
RECURSIVE Texts(_)
Texts(n) ==
    IF n = 0 THEN {<<>>}
    ELSE LET shorter == Texts(n - 1)
         IN  shorter \cup {Append(t, c) : t \in shorter, c \in Chars}

\* drafts that vary the validated fields, and drafts that pass validation
\* and vary the four location parts or the category and subcategory
Drafts ==
    {[InitialFormData EXCEPT !.businessName = name,
                             !.businessCount = CountFromInput(n),
                             !.generateOutreach = flag] :
        name \in Texts(MaxTextLen), n \in -1..11, flag \in BOOLEAN}
    \cup
    {[InitialFormData EXCEPT !.businessName = <<"a">>,
                             !.area = area, !.city = city,
                             !.state = state, !.country = country] :
        area \in Texts(MaxTextLen), city \in Texts(MaxTextLen),
        state \in Texts(MaxTextLen), country \in Texts(MaxTextLen)}
    \cup
    {[InitialFormData EXCEPT !.businessName = name,
                             !.businessCategory = category,
                             !.businessSubcategory = subcategory] :
        name \in {<<"a">>, <<" ", "a">>}, category \in Texts(MaxTextLen),
        subcategory \in Texts(MaxTextLen)}

\* handleAnalyze applied once to every draft
DraftSpec == (\E fd \in Drafts : Mounted(fd)) /\ [][HandleAnalyze]_vars

\* what each control of the form can hand to handleInputChange
FieldInputs(field) ==
    CASE field = "businessName" -> NameInputs \cup {<<>>}
      [] field = "businessCount" -> {CountFromInput(n) : n \in CountInputs}
      [] field \in {"techStackMethod"} -> {"both", "api", "custom"}
      [] field \in {"websiteAnalysisMethod"} -> {"both", "google_apis", "custom"}
      [] field = "generateOutreach" -> BOOLEAN
      [] OTHER -> {<<>>, <<"a">>}

\* any control of the form is edited
EditField ==
    \E field \in DOMAIN formData :
        \E value \in FieldInputs(field) : HandleInputChange(field, value)

\* the form alone: every field is edited, in every order
FormSpec == Init /\ [][EditField]_vars

----------------------------------------------------------------------------
(* Detailed results and the specification of the result card *)

\* category maps and tool maps hold at most this many entries
MaxEntries == 2

SectionForms == {"absent", "error", "present"}

ProcessedData(form, confidence) ==
    [form |-> form,
     confidence_score |-> IF form = "present" THEN confidence ELSE Undefined]

BusinessInfo(form, data) ==
    [form |-> form,
     processed_data |-> IF form = "present" THEN data
                        ELSE ProcessedData("absent", Undefined)]

\* the entries of an object, with the key left out when its value is undefined
WithKey(entries, key, value) ==
    IF value.kind = "undefined" THEN entries ELSE Append(entries, Entry(key, value))

TechStack(form, entries) ==
    [form |-> form, entries |-> IF form = "present" THEN entries ELSE <<>>]

ConversionTracking(present, entries) ==
    [present |-> present, entries |-> IF present THEN entries ELSE <<>>]

EmailMarketing(present, score) ==
    [present |-> present,
     email_automation_score |-> IF present THEN score ELSE Undefined]

WebsiteAnalysis(form, seo, design, tracking, email) ==
    IF form = "present"
    THEN [form |-> form, seo_score |-> seo, design_quality_score |-> design,
          conversion_tracking |-> tracking, email_marketing |-> email]
    ELSE [form |-> form, seo_score |-> Undefined, design_quality_score |-> Undefined,
          conversion_tracking |-> ConversionTracking(FALSE, <<>>),
          email_marketing |-> EmailMarketing(FALSE, Undefined)]

BusinessIntelligence(form, readiness, potential, overall, reputation) ==
    [form |-> form,
     digital_readiness_score |-> IF form = "present" THEN readiness ELSE Undefined,
     website_conversion_potential |-> IF form = "present" THEN potential ELSE Undefined,
     overall_score |-> IF form = "present" THEN overall ELSE Undefined,
     online_reputation_score |-> IF form = "present" THEN reputation ELSE Undefined]

\* response.data.data of a successful answer, with its sections
DetailedResult(info, stack, site, intel, om) ==
    [isNull |-> FALSE, analysis_id |-> "a1", generate_outreach |-> TRUE,
     outreach_message |-> om, business_info |-> info, tech_stack |-> stack,
     website_analysis |-> site, business_intelligence |-> intel]

\* scores the service may give in probability form: missing, null, 0, 0.73,
\* 0.735, 1.5 and -0.05
ProbabilityValues ==
    {Undefined, Null, Number(0), Number(730), Number(735), Number(1500), Number(-50)}

\* scores the service may give on the 0-100 scale: missing, null, 0, 0.73,
\* 72.5, 150 and -5
PointValues ==
    {Undefined, Null, Number(0), Number(730), Number(72500), Number(150000),
     Number(-5000)}

OneCategory == <<Entry("cms", Array(<<"WordPress">>))>>

OneTool == <<Entry("google_analytics", Boolean(TRUE))>>

\* a result with all its sections and the ten scores given
ScoredResult(infoC, stackC, seo, design, track, email, ready, potential, overall, repute) ==
    DetailedResult(
        BusinessInfo("present", ProcessedData("present", infoC)),
        TechStack("present", WithKey(OneCategory, "confidence_score", stackC)),
        WebsiteAnalysis("present", seo, design,
            ConversionTracking(TRUE, WithKey(OneTool, "conversion_tracking_score", track)),
            EmailMarketing(TRUE, email)),
        BusinessIntelligence("present", ready, potential, overall, repute),
        "present")

DefaultResult ==
    ScoredResult(Number(900), Number(900), Number(72500), Number(72500),
                 Number(72500), Number(72500), Number(900), Number(900),
                 Number(900), Number(900))

\* every section absent, with an error marker, or present
SectionVariants ==
    UNION {
        {DetailedResult(BusinessInfo(b, ProcessedData(d, Number(900))),
                        TechStack(t, DefaultResult.tech_stack.entries),
                        WebsiteAnalysis(w, Number(72500), Number(72500),
                                        DefaultResult.website_analysis.conversion_tracking,
                                        EmailMarketing(TRUE, Number(72500))),
                        BusinessIntelligence(i, Number(900), Number(900),
                                             Number(900), Number(900)),
                        o) :
            d \in (IF b = "present" THEN SectionForms ELSE {"absent"}),
            t \in SectionForms, w \in SectionForms, i \in SectionForms,
            o \in SectionForms} :
        b \in SectionForms}

\* every score field given every value, all together and one at a time
ScoreVariants ==
    LET P == ProbabilityValues
        Q == PointValues
        p0 == Number(900)
        q0 == Number(72500)
    IN  {ScoredResult(p, p, q, q, q, q, p, p, p, p) : p \in P, q \in Q}
        \cup {ScoredResult(p, p0, q0, q0, q0, q0, p0, p0, p0, p0) : p \in P}
        \cup {ScoredResult(p0, p, q0, q0, q0, q0, p0, p0, p0, p0) : p \in P}
        \cup {ScoredResult(p0, p0, q, q0, q0, q0, p0, p0, p0, p0) : q \in Q}
        \cup {ScoredResult(p0, p0, q0, q, q0, q0, p0, p0, p0, p0) : q \in Q}
        \cup {ScoredResult(p0, p0, q0, q0, q, q0, p0, p0, p0, p0) : q \in Q}
        \cup {ScoredResult(p0, p0, q0, q0, q0, q, p0, p0, p0, p0) : q \in Q}
        \cup {ScoredResult(p0, p0, q0, q0, q0, q0, p, p0, p0, p0) : p \in P}
        \cup {ScoredResult(p0, p0, q0, q0, q0, q0, p0, p, p0, p0) : p \in P}
        \cup {ScoredResult(p0, p0, q0, q0, q0, q0, p0, p0, p, p0) : p \in P}
        \cup {ScoredResult(p0, p0, q0, q0, q0, q0, p0, p0, p0, p) : p \in P}

\* the mappings of at most n entries with distinct keys, in every order
RECURSIVE EntryLists(_, _, _)
EntryLists(keys, values, n) ==
    IF n = 0 THEN {<<>>}
    ELSE LET shorter == EntryLists(keys, values, n - 1)
         IN  shorter \cup
             {Append(t[1], Entry(t[2], t[3])) :
                 t \in {u \in shorter \X keys \X values :
                           /\ Len(u[1]) = n - 1
                           /\ \A i \in 1..Len(u[1]) : u[1][i].key # u[2]}}

TechStackMaps ==
    EntryLists({"cms", "analytics", "frameworks"},
               {Array(<<>>), Array(<<"WordPress">>), Number(900)}, MaxEntries)

TrackingMaps ==
    EntryLists({"google_analytics", "facebook_pixel", "google_tag_manager"},
               {Boolean(TRUE), Boolean(FALSE), Number(72500)}, MaxEntries)

\* every category map, and every tool map
EntryVariants ==
    {[DefaultResult EXCEPT !.tech_stack = TechStack("present", m)] :
        m \in TechStackMaps}
    \cup {[DefaultResult EXCEPT
              !.website_analysis.conversion_tracking = ConversionTracking(TRUE, m)] :
            m \in TrackingMaps}

RenderedResults == SectionVariants \cup ScoreVariants \cup EntryVariants

\* a result was loaded from the history and is on the page
Showing(result) ==
    /\ formData = InitialFormData
    /\ loading = FALSE
    /\ analysis = result
    /\ error = ""
    /\ analysisHistory = <<result.analysis_id>>
    /\ activeTab = "analyzer"
    /\ net = Settle(2 :> Request("load", "click", result.analysis_id, NoAnalysis), 2)
    /\ nextId = 3
    /\ posted = 0
    /\ fetched = 1
    /\ shownBy = 2

RenderNext == EditOutreach \/ SwitchTab

\* the result card: any result of the service is displayed, and the user
\* ticks the outreach checkbox and switches tabs
RenderSpec == (\E result \in RenderedResults : Showing(result)) /\ [][RenderNext]_vars

----------------------------------------------------------------------------
(* Vocabulary of the properties, stated without the code's helpers *)

Blank(s) == \A i \in 1..Len(s) : s[i] = " "

ValidDraft(fd) == ~Blank(fd.businessName) /\ fd.businessCount \in 1..10

Submitting == loading

Succeeded == ~loading /\ ~analysis.isNull

Failed == ~loading /\ error # ""

PostsInFlight == Cardinality({id \in DOMAIN net : net[id].kind = "analyze"})

\* the history refresh a successful submission awaits is in flight
RefreshAwaited == \E id \in DOMAIN net : net[id].kind = "history" /\ net[id].parent = "submit"

----------------------------------------------------------------------------
(* C1 *)

----------------------------------------------------------------------------
(* C2 *)

\* C2: handleAnalyze on a draft whose businessName is empty or only
\* whitespace issues no request, stores the validation message and leaves
\* loading false.
C2_BlankNameRejected ==
    [][(HandleAnalyze /\ Blank(formData.businessName)) =>
        /\ net' = net /\ nextId' = nextId
        /\ posted' = posted /\ fetched' = fetched
        /\ error' = "Please enter a business name"
        /\ ~loading /\ ~loading']_vars

\* handleAnalyze has run on a whitespace-only name
C2_Witness ==
    /\ formData.businessName # <<>> /\ Blank(formData.businessName)
    /\ error = "Please enter a business name"
    /\ posted = 0 /\ ~loading

----------------------------------------------------------------------------
(* C3 *)

\* C3: handleAnalyze on a draft whose businessCount is outside 1..10 issues
\* no request and stores a validation message; every POST is issued from a
\* draft with a non-blank name and a count in 1..10, and carries them.
C3_CountOutOfRangeRejected ==
    /\ [][(HandleAnalyze /\ formData.businessCount \notin 1..10) =>
            /\ net' = net /\ nextId' = nextId
            /\ posted' = posted /\ fetched' = fetched
            /\ error' \in {"Please enter a business name",
                           "Number of businesses must be between 1 and 10"}
            /\ ~loading']_vars
    /\ [][posted' # posted => ValidDraft(formData)]_vars
    /\ [](\A id \in DOMAIN net : net[id].kind = "analyze" =>
            /\ net[id].body.business_name # <<>>
            /\ ~Blank(net[id].body.business_name)
            /\ net[id].body.business_count \in 1..10)

\* handleAnalyze has run on a named draft whose count is out of range
C3_Witness ==
    /\ ~Blank(formData.businessName)
    /\ formData.businessCount \notin 1..10
    /\ error = "Number of businesses must be between 1 and 10"
    /\ posted = 0 /\ ~loading

----------------------------------------------------------------------------
(* C4 *)

\* C4: at most one POST /api/analyze-business is in flight in every state,
\* and no step taken while loading is true issues a POST.
C4_OneSubmissionInFlight ==
    /\ [](PostsInFlight <= 1)
    /\ [][Submitting => posted' = posted]_vars

\* the form is shown with a valid draft while a submission is in flight, and
\* the bound on started requests would still allow another one
C4_Witness ==
    /\ Submitting /\ PostsInFlight = 1
    /\ activeTab = "analyzer" /\ ValidDraft(formData)
    /\ Started < MaxStarted

----------------------------------------------------------------------------
(* C5 *)

\* C5 as stated: when a submission is rejected (transport failure or
\* non-2xx), it ends in Failed with the displayed result the same as it was
\* when the submission started, and with the cached history list untouched.
C5_AsStated ==
    [][\A id \in InFlight("analyze") : \A resp \in AnalyzeResponses(net[id].body) :
        (AnalyzeSettled(id, resp) /\ ~resp.ok) =>
            /\ Failed'
            /\ analysis' = net[id].before
            /\ analysisHistory' = analysisHistory]_vars

\* C5 amended: a submission that passes validation clears the displayed
\* result at once and leaves the history list alone; when it is rejected it
\* ends in Failed and the rejection changes neither the displayed result nor
\* the history list (the result displayed before the submission is not
\* restored).
C5_FailureLeavesStateAlone ==
    /\ [][(HandleAnalyze /\ ValidDraft(formData)) =>
            (analysis'.isNull /\ analysisHistory' = analysisHistory)]_vars
    /\ [][\A id \in InFlight("analyze") : \A resp \in AnalyzeResponses(net[id].body) :
            (AnalyzeSettled(id, resp) /\ ~resp.ok) =>
                /\ Failed'
                /\ analysis' = analysis
                /\ analysisHistory' = analysisHistory]_vars

\* a submission was rejected after a result had been displayed and a history
\* list cached: the result is gone, the list is kept
C5_Witness ==
    /\ Failed /\ error = "Analysis failed: Network Error"
    /\ shownBy > 0 /\ analysis.isNull
    /\ analysisHistory # <<>>

----------------------------------------------------------------------------
(* C6 *)

\* C6: the response of an older submission or history load never replaces
\* the displayed analysis, written by the response of a newer one, by another
\* analysis (request ids grow in the order of the user's actions).
C6_LastWriterWins ==
    [][(shownBy' < shownBy /\ ~analysis.isNull) =>
        analysis'.analysis_id = analysis.analysis_id]_vars

----------------------------------------------------------------------------
(* C7 *)

\* C7: the outreach section is rendered only for a displayed result whose
\* own submission had generate_outreach set.
C7_OutreachOnlyIfRequested == OutreachRendered => analysis.generate_outreach

----------------------------------------------------------------------------
(* C8 *)

\* the non-blank texts of parts, in order, with ", " between them
RECURSIVE JoinNonBlank(_)
JoinNonBlank(parts) ==
    IF parts = <<>> THEN <<>>
    ELSE LET rest == JoinNonBlank(Tail(parts))
         IN  IF Blank(Head(parts)) THEN rest
             ELSE IF rest = <<>> THEN Head(parts)
             ELSE Head(parts) \o <<",", " ">> \o rest

\* C8: the location of a request built from a draft is null when area, city,
\* state and country are all blank, and otherwise the text of the non-blank
\* ones, in that order, joined by ", ".
C8_LocationJoined ==
    \A id \in DOMAIN net : net[id].kind = "analyze" =>
        LET parts == <<formData.area, formData.city, formData.state, formData.country>>
            location == net[id].body.location
        IN  IF \A i \in 1..4 : Blank(parts[i])
            THEN location.isNull
            ELSE ~location.isNull /\ location.text = JoinNonBlank(parts)

\* area blank, city "a", state "aa", country blank was sent as "a, aa"
C8_Witness ==
    \E id \in DOMAIN net :
        /\ net[id].kind = "analyze"
        /\ formData.area = <<" ">> /\ formData.city = <<"a">>
        /\ formData.state = <<"a", "a">> /\ formData.country = <<>>
        /\ net[id].body.location = [isNull |-> FALSE, text |-> <<"a", ",", " ", "a", "a">>]

----------------------------------------------------------------------------
(* C9 *)

HistoryGetsInFlight == Cardinality({id \in DOMAIN net : net[id].kind = "history"})

----------------------------------------------------------------------------
(* C10 *)

\* C10: the step that settles a history refresh leaves the displayed result
\* and the error message as they are; when the refresh did not succeed the
\* cached list is unchanged too; and when a submission awaited it, the
\* submission is then Succeeded.
C10_RefreshTouchesOnlyHistory ==
    [][\A id \in InFlight("history") : \A resp \in HistoryResponses :
        HistorySettled(id, resp) =>
            /\ analysis' = analysis
            /\ error' = error
            /\ (~(resp.ok /\ resp.success) => analysisHistory' = analysisHistory)
            /\ (net[id].parent = "submit" => Succeeded')]_vars

\* the refresh of a successful submission settled while a list was cached
C10_Witness ==
    /\ posted = 1 /\ fetched = 2 /\ DOMAIN net = {}
    /\ Succeeded /\ analysisHistory # <<>>

----------------------------------------------------------------------------
(* C11 *)

\* C11: the step that handles a successful answer to loadAnalysis (its
\* request leaves the requests in flight) stores the fetched result as the
\* displayed result and changes nothing else of the orchestration: loading
\* keeps its value, no POST and no history refresh is issued (no request
\* at all), and the cached history list, the form draft and the error
\* message are unchanged.
C11_LoadOnlyReplacesResult ==
    [][\A id \in InFlight("load") \ DOMAIN net' :
       \A resp \in LoadResponses(net[id].body) :
        (resp.ok /\ resp.success /\ LoadSettled(id, resp)) =>
            /\ analysis' = resp.data
            /\ loading' = loading
            /\ posted' = posted
            /\ PostsInFlight' = PostsInFlight
            /\ fetched' = fetched
            /\ HistoryGetsInFlight' = HistoryGetsInFlight
            /\ nextId' = nextId
            /\ analysisHistory' = analysisHistory
            /\ formData' = formData
            /\ error' = error]_vars

\* a history entry was loaded and is displayed; nothing was ever submitted
\* and only the initial refresh was issued
C11_Witness ==
    /\ shownBy > 0 /\ ~analysis.isNull /\ DOMAIN net = {}
    /\ posted = 0 /\ fetched = 1 /\ ~loading
    /\ analysisHistory # <<>> /\ formData # InitialFormData

----------------------------------------------------------------------------
(* C12 *)

\* C12: the step that handles a rejected GET /api/analysis/{id} (HTTP 404,
\* HTTP 5xx) leaves a non-empty error message and leaves the displayed
\* result exactly as it was.
C12_LoadFailureKeepsResult ==
    [][\A id \in InFlight("load") \ DOMAIN net' :
       \A resp \in LoadResponses(net[id].body) :
        (~resp.ok /\ LoadSettled(id, resp)) =>
            /\ error' # ""
            /\ analysis' = analysis]_vars

\* a result is displayed, a later selection failed: the error is shown next
\* to the result that was there
C12_Witness ==
    /\ error = LoadError /\ ~analysis.isNull /\ shownBy > 0
    /\ DOMAIN net = {} /\ posted = 0

----------------------------------------------------------------------------
(* C17 *)

\* C17: the step that handles a rejected POST stores "Analysis failed: "
\* followed by the detail of the service's error payload when the failure
\* carries one, and followed by the transport failure's message only when
\* it carries none.
C17_ErrorFromPayloadElseTransport ==
    [][\A id \in InFlight("analyze") : \A resp \in AnalyzeResponses(net[id].body) :
        (AnalyzeSettled(id, resp) /\ ~resp.ok) =>
            /\ (resp.detail # "" => error' = "Analysis failed: " \o resp.detail)
            /\ (resp.detail = "" => error' = "Analysis failed: " \o resp.message)]_vars

\* a submission was rejected with a payload whose detail differs from the
\* transport message, and the detail is what is shown
C17_Witness ==
    /\ posted = 1 /\ ~loading /\ DOMAIN net = {}
    /\ error = "Analysis failed: Internal Server Error"

----------------------------------------------------------------------------
(* C18 *)

\* C18: the step that handles a successful answer to GET /api/analyses
\* makes the cached history list equal to the list the service returned:
\* same entries, same order, nothing kept from the previous cache.
C18_RefreshReplacesList ==
    [][\A id \in InFlight("history") : \A resp \in HistoryResponses :
        (HistorySettled(id, resp) /\ resp.ok /\ resp.success) =>
            analysisHistory' = resp.data]_vars

\* entry a2 was cached (it was clicked, its load is still in flight) and a
\* later refresh returned a list without it: a2 is gone from the cache
C18_Witness ==
    /\ analysisHistory = <<"a1">>
    /\ fetched = 2
    /\ \E id \in InFlight("load") : net[id].body = "a2"

----------------------------------------------------------------------------
(* C19 *)

\* C19: one GET /api/analyses is issued on mounting; afterwards a step
\* issues one only when it handles a successful answer to a submission;
\* a step that issues one (or changes the number in flight) is no tab
\* switch, form edit, history selection or answer to one, no call of
\* handleAnalyze (validation failure or submission) and no failed
\* submission.
C19_FetchOnlyOnLoadAndSuccess ==
    /\ (fetched = 1)
    /\ [][(fetched' # fetched \/ HistoryGetsInFlight' > HistoryGetsInFlight) =>
            \E id \in InFlight("analyze") : \E resp \in AnalyzeResponses(net[id].body) :
                resp.ok /\ resp.success /\ AnalyzeSettled(id, resp)]_vars
    /\ [][(fetched' # fetched \/ HistoryGetsInFlight' # HistoryGetsInFlight) =>
            ~(\/ SwitchTab \/ EditName \/ EditCount \/ EditOutreach
              \/ SelectHistory \/ LoadSettles \/ HandleAnalyze
              \/ \E id \in InFlight("analyze") :
                   \E resp \in AnalyzeResponses(net[id].body) :
                      ~(resp.ok /\ resp.success) /\ AnalyzeSettled(id, resp))]_vars

\* the form was edited, a submission failed, the history tab was opened and
\* an entry was loaded from it: still only the initial fetch was issued
C19_Witness ==
    /\ fetched = 1 /\ posted = 1 /\ error # "" /\ ~loading
    /\ shownBy > 0 /\ ~analysis.isNull /\ activeTab = "history"
    /\ formData # InitialFormData /\ DOMAIN net = {}

----------------------------------------------------------------------------
(* C20 *)

\* C20: an edit of one field gives that field the edited value and leaves
\* every other field of the draft as it was; and from every draft, two
\* edits of different fields give the same draft in either order.
C20_EditsAreIndependent ==
    /\ [][\A field \in DOMAIN formData : \A value \in FieldInputs(field) :
            HandleInputChange(field, value) =>
                /\ formData'[field] = value
                /\ \A other \in (DOMAIN formData) \ {field} :
                       formData'[other] = formData[other]]_vars
    /\ [](\A f1 \in DOMAIN formData : \A f2 \in (DOMAIN formData) \ {f1} :
            \A v1 \in FieldInputs(f1) : \A v2 \in FieldInputs(f2) :
                UpdatedFormData(UpdatedFormData(formData, f1, v1), f2, v2)
                    = UpdatedFormData(UpdatedFormData(formData, f2, v2), f1, v1))

\* state was edited, then city, then other fields: state kept its value
C20_Witness ==
    /\ formData.state = <<"a">> /\ formData.city = <<"a">>
    /\ formData.businessName = <<"a">> /\ formData.businessCount = 11
    /\ formData.generateOutreach /\ formData.techStackMethod = "custom"

----------------------------------------------------------------------------
(* C13 *)

\* the form a section of the displayed result has
SectionForm(name) ==
    CASE name = "business_info" ->
             IF analysis.business_info.form = "present"
             THEN analysis.business_info.processed_data.form
             ELSE analysis.business_info.form
      [] name = "tech_stack" -> analysis.tech_stack.form
      [] name = "website_analysis" -> analysis.website_analysis.form
      [] name = "business_intelligence" -> analysis.business_intelligence.form
      [] name = "outreach_message" -> analysis.outreach_message

----------------------------------------------------------------------------
(* C14 *)

Clamp(t, low, high) == IF t < low THEN low ELSE IF t > high THEN high ELSE t

\* C14: every score bar of a displayed result that was handed a number
\* shows round(clamp(score, 0, 100)) before "/100", and its width lies
\* between 0 and 100 percent.
C14_ScoreBarClamps ==
    ResultVisible =>
        \A name \in SectionNames :
            LET bars == ResultView(analysis, formData)[name].bars
            IN  \A i \in 1..Len(bars) :
                    bars[i].score.kind = "number" =>
                        /\ bars[i].number =
                              MathRound(Clamp(bars[i].score.num, 0, 100 * 1000))
                        /\ bars[i].width >= 0
                        /\ bars[i].width <= 100 * 1000

----------------------------------------------------------------------------
(* C15 *)

\* the score fields of the displayed result: the section that shows each,
\* the label of its bar, the value the service gave, and whether the call
\* site takes it as a probability
ScoreFields ==
    LET Field(section, label, value, probability) ==
            [section |-> section, label |-> label, value |-> value,
             probability |-> probability]
        site == analysis.website_analysis
        intel == analysis.business_intelligence
    IN  {Field("business_info", "Data Accuracy Confidence",
               analysis.business_info.processed_data.confidence_score, TRUE),
         Field("tech_stack", "Technology Detection Confidence",
               Get(analysis.tech_stack.entries, "confidence_score"), TRUE),
         Field("website_analysis", "SEO Score", site.seo_score, FALSE),
         Field("website_analysis", "Design Quality", site.design_quality_score, FALSE),
         Field("website_analysis", "Conversion Tracking",
               Get(site.conversion_tracking.entries, "conversion_tracking_score"), FALSE),
         Field("website_analysis", "Email Marketing",
               site.email_marketing.email_automation_score, FALSE),
         Field("business_intelligence", "Digital Readiness",
               intel.digital_readiness_score, TRUE),
         Field("business_intelligence", "Conversion Potential",
               intel.website_conversion_potential, TRUE),
         Field("business_intelligence", "Investment Score", intel.overall_score, TRUE),
         Field("business_intelligence", "Reputation Score",
               intel.online_reputation_score, TRUE)}

\* the bars a section shows under a label
BarsLabelled(section, label) ==
    SelectSeq(ResultView(analysis, formData)[section].bars,
              LAMBDA bar : bar.label = label)

Missing(value) == value.kind \in {"undefined", "null"}

\* round(p * 100) of a probability held in thousandths
PercentOf(p) == (p + 5) \div 10

\* C15 as stated: for every score field of every section that shows its
\* content, a missing score shows one bar reading 0/100, and a score given
\* as a probability in 0..1 shows one bar reading round(100 * score).
C15_AsStated ==
    ResultVisible =>
        \A f \in ScoreFields :
            ResultView(analysis, formData)[f.section].shown = "content" =>
                LET bars == BarsLabelled(f.section, f.label)
                IN  /\ Missing(f.value) => (Len(bars) = 1 /\ bars[1].number = 0)
                    /\ (f.value.kind = "number" /\ f.value.num \in 0..1000)
                          => (Len(bars) = 1 /\ bars[1].number = PercentOf(f.value.num))

\* C15: a score bar handed a missing score reads 0/100 with no width.  In a
\* section that shows its content, a field the call site takes as a
\* probability (the confidence of business info and of the tech stack, the
\* four key scores of business intelligence) shows one bar reading
\* round(100 * score) when the score is a number other than 0, and no bar
\* when it is missing or 0; a website-analysis score shows no bar when it
\* is undefined, one bar reading 0/100 when it is null, and otherwise one
\* bar reading round(score), unscaled.
C15_MissingAndScaledScores ==
    /\ \A v \in {Undefined, Null} :
          ScoreBar(v, "label").number = 0 /\ ScoreBar(v, "label").width = 0
    /\ ResultVisible =>
        \A f \in ScoreFields :
            ResultView(analysis, formData)[f.section].shown = "content" =>
                LET bars == BarsLabelled(f.section, f.label)
                    given == f.value.kind = "number" /\ f.value.num # 0
                IN  /\ (f.probability /\ given)
                          => (Len(bars) = 1 /\ bars[1].number = PercentOf(f.value.num))
                    /\ (f.probability /\ ~given) => bars = <<>>
                    /\ (~f.probability /\ f.value.kind = "undefined") => bars = <<>>
                    /\ (~f.probability /\ f.value.kind = "null")
                          => (Len(bars) = 1 /\ bars[1].number = 0 /\ bars[1].width = 0)
                    /\ (~f.probability /\ f.value.kind = "number")
                          => (Len(bars) = 1 /\ bars[1].number = MathRound(f.value.num))

\* a displayed result whose reputation score is 0.73 and shown as 73/100,
\* and whose SEO score is null and shown as 0/100
C15_Witness ==
    /\ ResultVisible
    /\ analysis.business_intelligence.form = "present"
    /\ analysis.business_intelligence.online_reputation_score = Number(730)
    /\ Len(BarsLabelled("business_intelligence", "Reputation Score")) = 1
    /\ BarsLabelled("business_intelligence", "Reputation Score")[1].number = 73
    /\ analysis.website_analysis.form = "present"
    /\ analysis.website_analysis.seo_score = Null
    /\ Len(BarsLabelled("website_analysis", "SEO Score")) = 1
    /\ BarsLabelled("website_analysis", "SEO Score")[1].number = 0

----------------------------------------------------------------------------
(* C16 *)

\* shown holds, in the order of entries, one item for each entry that
\* satisfies Keep and no other item
ShownInOrder(shown, entries, Keep(_)) ==
    LET Position(key) == CHOOSE j \in 1..Len(entries) : entries[j].key = key
    IN  /\ \A i \in 1..Len(shown) :
              \E j \in 1..Len(entries) :
                  entries[j].key = shown[i].key /\ Keep(entries[j].value)
        /\ \A j \in 1..Len(entries) :
              Keep(entries[j].value) =>
                  \E i \in 1..Len(shown) : shown[i].key = entries[j].key
        /\ \A i1, i2 \in 1..Len(shown) :
              i1 < i2 => Position(shown[i1].key) < Position(shown[i2].key)

NonEmptyList(value) == value.kind = "array" /\ value.items # <<>>

FlagSet(value) == value.kind = "boolean" /\ value.flag

IsFlag(value) == value.kind = "boolean"

TechStackShown == ResultView(analysis, formData)["tech_stack"].entries

TrackingShown == ResultView(analysis, formData)["website_analysis"].entries

\* C16 as stated: the categories shown are, in the service's order, those
\* whose list is not empty, and the tools shown are, in the service's
\* order, those whose flag is true.
C16_AsStated ==
    (/\ ResultVisible
     /\ analysis.tech_stack.form = "present"
     /\ analysis.website_analysis.form = "present") =>
        /\ ShownInOrder(TechStackShown, analysis.tech_stack.entries, NonEmptyList)
        /\ ShownInOrder(TrackingShown,
                        analysis.website_analysis.conversion_tracking.entries, FlagSet)

\* C16: the categories shown are, in the service's order, those whose value
\* is a non-empty list.  The tools shown are, in the service's order, all
\* those whose value is a boolean: a true flag as Active and a false flag
\* as Not Found; only the earlier version of the list leaves the false
\* flags out.
C16_EntriesInServiceOrder ==
    (/\ ResultVisible
     /\ analysis.tech_stack.form = "present"
     /\ analysis.website_analysis.form = "present") =>
        LET tools == analysis.website_analysis.conversion_tracking.entries
        IN  /\ ShownInOrder(TechStackShown, analysis.tech_stack.entries, NonEmptyList)
            /\ ShownInOrder(TrackingShown, tools, IsFlag)
            /\ \A i \in 1..Len(TrackingShown) :
                  TrackingShown[i].badge =
                      (IF FlagSet(Get(tools, TrackingShown[i].key))
                       THEN "Active" ELSE "Not Found")
            /\ ShownInOrder(TrackingEntriesEarlier(tools), tools, FlagSet)

\* a displayed result with an empty category before a non-empty one
C16_Witness ==
    /\ ResultVisible
    /\ analysis.tech_stack.entries =
          <<Entry("frameworks", Array(<<>>)), Entry("cms", Array(<<"WordPress">>))>>
    /\ TechStackShown = <<[key |-> "cms", items |-> <<"WordPress">>]>>

----------------------------------------------------------------------------
(* C21 *)

\* C21: the result displayed after a successful loadAnalysis is the
\* service's answer and nothing of the state before it; so when the
\* service gives the answer that an earlier loadAnalysis already
\* displayed, the displayed result is the same after the second call as
\* after the first.
C21_LoadIsIdempotent ==
    [][\A id \in InFlight("load") \ DOMAIN net' :
       \A resp \in LoadResponses(net[id].body) :
        (resp.ok /\ resp.success /\ LoadSettled(id, resp)) =>
            /\ analysis' = resp.data
            /\ (analysis = resp.data => analysis' = analysis)]_vars

\* the only entry of the history was loaded twice (requests 2 and 3) and
\* the answer to the second is displayed
C21_Witness ==
    /\ shownBy = 3 /\ nextId = 4 /\ posted = 0 /\ fetched = 1
    /\ DOMAIN net = {} /\ analysisHistory = <<"a1">>
    /\ ~analysis.isNull /\ analysis.analysis_id = "a1"

----------------------------------------------------------------------------
(* C22 *)

\* sent is typed without its leading and trailing spaces
IsTrimOf(sent, typed) ==
    \E i \in 1..(Len(typed) + 1) : \E j \in 0..Len(typed) :
        /\ sent = SubSeq(typed, i, j)
        /\ Blank(SubSeq(typed, 1, i - 1))
        /\ Blank(SubSeq(typed, j + 1, Len(typed)))
        /\ sent # <<>> => (sent[1] # " " /\ sent[Len(sent)] # " ")

\* a blank field is sent as null, any other as its non-empty trimmed text
NullOrTrimmed(sent, typed) ==
    IF Blank(typed) THEN sent = JsNull
    ELSE ~sent.isNull /\ sent.text # <<>> /\ IsTrimOf(sent.text, typed)

\* C22: the body of every POST has exactly the keys business_name,
\* business_count, business_category, business_subcategory, location and
\* analysis_options (with tech_stack_method, website_analysis_method and
\* generate_outreach); business_name is the trimmed name; a blank category,
\* subcategory or location is null and any other is a non-empty text.
C22_BodyCompleteWithNulls ==
    [][(HandleAnalyze /\ ValidDraft(formData)) =>
        LET body == net'[nextId].body
        IN  /\ DOMAIN body = {"business_name", "business_count", "business_category",
                              "business_subcategory", "location", "analysis_options"}
            /\ DOMAIN body.analysis_options =
                  {"tech_stack_method", "website_analysis_method", "generate_outreach"}
            /\ IsTrimOf(body.business_name, formData.businessName)
            /\ body.business_count = formData.businessCount
            /\ NullOrTrimmed(body.business_category, formData.businessCategory)
            /\ NullOrTrimmed(body.business_subcategory, formData.businessSubcategory)
            /\ IF \A part \in {formData.area, formData.city,
                               formData.state, formData.country} : Blank(part)
               THEN body.location = JsNull
               ELSE ~body.location.isNull /\ body.location.text # <<>>
            /\ body.analysis_options.tech_stack_method = formData.techStackMethod
            /\ body.analysis_options.website_analysis_method
                  = formData.websiteAnalysisMethod
            /\ body.analysis_options.generate_outreach = formData.generateOutreach]_vars

\* a draft with a category of one space and a padded name and subcategory
\* was submitted: the category went out as null, the others trimmed
C22_Witness ==
    /\ posted = 1 /\ 2 \in DOMAIN net
    /\ formData.businessName = <<" ", "a">>
    /\ formData.businessCategory = <<" ">>
    /\ formData.businessSubcategory = <<"a", " ">>
    /\ net[2].body.business_name = <<"a">>
    /\ net[2].body.business_category = JsNull
    /\ net[2].body.business_subcategory = JsText(<<"a">>)
    /\ net[2].body.location = JsNull

----------------------------------------------------------------------------
(* C23 *)

\* the failures a request in flight may end with
Rejections(id) ==
    {resp \in (CASE net[id].kind = "analyze" -> AnalyzeResponses(net[id].body)
                 [] net[id].kind = "history" -> HistoryResponses
                 [] net[id].kind = "load" -> LoadResponses(net[id].body)) : ~resp.ok}

\* the operation that awaits the request handles the answer
Handled(id, resp) ==
    CASE net[id].kind = "analyze" -> ENABLED AnalyzeSettled(id, resp)
      [] net[id].kind = "history" -> ENABLED HistorySettled(id, resp)
      [] net[id].kind = "load" -> ENABLED LoadSettled(id, resp)

\* C23: every failure of every request in flight is handled by the
\* operation that awaits it; a rejected submission, an HTTP 422 included,
\* ends with an error message stored and loading false; a rejected history
\* load stores an error message; a rejected history refresh changes
\* nothing but the loading of the submission that awaited it.
C23_FailuresBecomeTransitions ==
    /\ [](\A id \in DOMAIN net : \A resp \in Rejections(id) : Handled(id, resp))
    /\ [][\A id \in InFlight("analyze") \ DOMAIN net' :
          \A resp \in AnalyzeResponses(net[id].body) :
            (~resp.ok /\ AnalyzeSettled(id, resp)) => Failed']_vars
    /\ [][\A id \in InFlight("load") \ DOMAIN net' :
          \A resp \in LoadResponses(net[id].body) :
            (~resp.ok /\ LoadSettled(id, resp)) => error' # ""]_vars
    /\ [][\A id \in InFlight("history") \ DOMAIN net' :
          \A resp \in HistoryResponses :
            (~resp.ok /\ HistorySettled(id, resp)) =>
                /\ UNCHANGED <<formData, analysis, error, analysisHistory, activeTab>>
                /\ loading' = (loading /\ net[id].parent # "submit")]_vars

\* a submission was answered with HTTP 422 and ended in Failed
C23_Witness ==
    /\ posted = 1 /\ Failed /\ DOMAIN net = {}
    /\ error = "Analysis failed: Unprocessable Entity"

----------------------------------------------------------------------------
(* C24 *)

\* C24: the body of a POST is built from the draft as it is when
\* handleAnalyze is called; no step changes a submission that is in
\* flight, whatever is edited meanwhile; and neither handleAnalyze (on a
\* validation failure or on issuing the POST) nor the handling of its
\* answer or of the refresh it awaits modifies the draft.
C24_PayloadIsSnapshot ==
    /\ [][(HandleAnalyze /\ posted' # posted) =>
            net'[nextId].body = AnalyzeBody(formData)]_vars
    /\ [][\A id \in InFlight("analyze") :
            id \in DOMAIN net' => net'[id] = net[id]]_vars
    /\ [][(HandleAnalyze \/ AnalyzeSettles \/ HistorySettles) =>
            formData' = formData]_vars

\* the name and the outreach box were edited while the submission that
\* carries the earlier values is in flight
C24_Witness ==
    \E id \in InFlight("analyze") :
        /\ net[id].body.business_name = <<"a">>
        /\ formData.businessName = <<" ">>
        /\ net[id].body.analysis_options.generate_outreach # formData.generateOutreach

----------------------------------------------------------------------------
(* C25 *)

\* C25: the refresh issued on mounting is the oldest one, so when it is the
\* last refresh to be answered and the cache is not empty, the cache holds
\* the answer to a refresh issued later; the answer to the oldest refresh
\* then leaves the cached list as it is.
C25_NewestRefreshWins ==
    [][\A id \in InFlight("history") \ DOMAIN net' :
       \A resp \in HistoryResponses :
        (/\ resp.ok /\ resp.success
         /\ net[id].parent = "mount"
         /\ InFlight("history") = {id}
         /\ fetched > 1
         /\ analysisHistory # <<>>
         /\ HistorySettled(id, resp)) =>
            analysisHistory' = analysisHistory]_vars

----------------------------------------------------------------------------
(* C26 *)

\* C26: while the refresh that a successful submission awaits is in
\* flight, loading is set, the submit button is disabled and the result is
\* displayed; the step that handles the successful answer leaves loading
\* set; and the step in which that refresh settles, with a list or with a
\* failure, is the one that resets loading.
C26_LoadingUntilRefreshSettles ==
    /\ [](RefreshAwaited => (loading /\ SubmitDisabled /\ ~analysis.isNull))
    /\ [][\A id \in InFlight("analyze") \ DOMAIN net' :
          \A resp \in AnalyzeResponses(net[id].body) :
            (resp.ok /\ resp.success /\ AnalyzeSettled(id, resp)) =>
                (loading' /\ RefreshAwaited' /\ analysis' = resp.data)]_vars
    /\ [][(RefreshAwaited /\ ~RefreshAwaited') => (loading /\ ~loading')]_vars

\* the result of a submission is displayed and its refresh is in flight
C26_Witness ==
    /\ RefreshAwaited /\ loading /\ ~analysis.isNull
    /\ posted = 1 /\ PostsInFlight = 0 /\ fetched = 2

----------------------------------------------------------------------------
(* C27 *)

\* a call of handleAnalyze is between its validation and its finally block
HandleAnalyzeRunning == PostsInFlight > 0 \/ RefreshAwaited

\* C27: loading is set exactly while a call of handleAnalyze has passed
\* validation and has not reached its finally block; and a step that
\* changes loading is no step of loadAnalysis, of a refresh that no
\* submission awaits, of an edit or of a tab switch.
C27_LoadingTracksHandleAnalyze ==
    /\ [](loading <=> HandleAnalyzeRunning)
    /\ [][(loading' # loading) =>
            ~(\/ SelectHistory \/ LoadSettles \/ EditName \/ EditCount \/ EditOutreach
              \/ SwitchTab
              \/ \E id \in InFlight("history") : \E resp \in HistoryResponses :
                    net[id].parent # "submit" /\ HistorySettled(id, resp))]_vars

\* a history entry is being loaded while no submission runs, and another
\* was loaded before: loading is not set
C27_Witness ==
    /\ ~loading /\ InFlight("load") # {} /\ shownBy > 0 /\ posted = 0

----------------------------------------------------------------------------
(* C28 *)

\* C28 as stated: the step that handles a 2xx answer to a submission whose
\* success flag is false stores 'Analysis failed. Please try again.',
\* resets loading, issues no history refresh, and no result is displayed
\* after it.
C28_AsStated ==
    [][\A id \in InFlight("analyze") \ DOMAIN net' :
       \A resp \in AnalyzeResponses(net[id].body) :
        (resp.ok /\ ~resp.success /\ AnalyzeSettled(id, resp)) =>
            /\ error' = UnsuccessfulError
            /\ Failed'
            /\ fetched' = fetched
            /\ analysis'.isNull]_vars

\* C28: the step that handles a 2xx answer to a submission whose success
\* flag is false stores 'Analysis failed. Please try again.', resets
\* loading, issues no request, and displays no result of its own: the
\* displayed result stays as it is.
C28_UnsuccessfulAnswerFails ==
    [][\A id \in InFlight("analyze") \ DOMAIN net' :
       \A resp \in AnalyzeResponses(net[id].body) :
        (resp.ok /\ ~resp.success /\ AnalyzeSettled(id, resp)) =>
            /\ error' = UnsuccessfulError
            /\ Failed'
            /\ fetched' = fetched
            /\ HistoryGetsInFlight' = HistoryGetsInFlight
            /\ nextId' = nextId
            /\ analysis' = analysis
            /\ shownBy' = shownBy]_vars

\* a submission ended with the generic message and nothing is displayed
C28_Witness ==
    /\ posted = 1 /\ error = UnsuccessfulError /\ ~loading
    /\ analysis.isNull /\ fetched = 1 /\ DOMAIN net = {}

----------------------------------------------------------------------------
(* C29 *)

\* C29: the step that handles a 2xx answer to loadAnalysis whose success
\* flag is false changes nothing of the state: the displayed result, the
\* error message, the active tab, loading, the history list and the draft
\* stay as they are, and no request is issued.
C29_UnsuccessfulLoadIsSilent ==
    [][\A id \in InFlight("load") \ DOMAIN net' :
       \A resp \in LoadResponses(net[id].body) :
        (resp.ok /\ ~resp.success /\ LoadSettled(id, resp)) =>
            /\ UNCHANGED <<analysis, error, activeTab, loading, analysisHistory,
                           formData, nextId, posted, fetched, shownBy>>
            /\ net' = Settle(net, id)]_vars

\* the one history selection made was answered: nothing is displayed, no
\* error is shown and the history tab is still open
C29_Witness ==
    /\ nextId = 3 /\ posted = 0 /\ DOMAIN net = {}
    /\ analysis.isNull /\ error = "" /\ activeTab = "history"
    /\ analysisHistory # <<>>

----------------------------------------------------------------------------
(* C30 *)

\* the error banner and the result card are both on the page
ErrorAndResultShown == error # "" /\ ResultVisible

\* C30: an error message is cleared only by the step of handleAnalyze that
\* passes validation and issues the POST; the step that handles a
\* successful answer to loadAnalysis leaves the error message as it is; the
\* step that handles a rejected loadAnalysis leaves the active tab as it is.
C30_ErrorClearedOnlyBySubmit ==
    /\ [][(error # "" /\ error' = "") =>
            (HandleAnalyze /\ posted' = posted + 1 /\ loading')]_vars
    /\ [][\A id \in InFlight("load") \ DOMAIN net' :
          \A resp \in LoadResponses(net[id].body) :
            /\ (resp.ok /\ resp.success /\ LoadSettled(id, resp)) => error' = error
            /\ (~resp.ok /\ LoadSettled(id, resp)) => activeTab' = activeTab]_vars

\* a validation error is on the page and a history entry was loaded next
\* to it: the banner and the result are shown together
C30_Witness ==
    /\ ErrorAndResultShown /\ error = NameError /\ posted = 0 /\ shownBy > 0

====
